---- MODULE Spec2Model ----
(***************************************************************************)
(* Ownership, moves, Copy types and Rc as src/src/main.rs presents them:   *)
(* the statements of main() and the rules the file states for them.        *)
(*                                                                         *)
(*   Spec      the binding machine: let, assignment, let-from (move or     *)
(*             copy), clone, pass-by-value, push, read, on String / i32 /  *)
(*             Rc<String> bindings over a small heap.                      *)
(*   SpecVec   the vector of lines 121-140: built by push, then pop,       *)
(*             swap_remove and mem::replace move elements out of it.       *)
(*   SpecFlow  moves and control flow (lines 71-95): whether x may be      *)
(*             uninitialized at each point of an if/else or a while loop.  *)
(*   SpecMoves the moves of Strings between owners: let, assignment,       *)
(*             passing to a function, pushing into a vector (lines 57-65)  *)
(*             and consuming the vector in a for loop (lines 145-154).     *)
(***************************************************************************)
EXTENDS Integers, Sequences, FiniteSets, TLC

\* ------------------------------------------------------------------------
\* Bounds
\* ------------------------------------------------------------------------
MaxObj == 3
MaxPush == 1

\* ------------------------------------------------------------------------
\* The binding machine: domains
\* ------------------------------------------------------------------------
\* The variables of the examples (s, t, u of lines 23-25, 33-35, 248-250).
Names == {"s", "t", "u"}

\* Heap blocks: a String's buffer, or an Rc's block (count plus String).
Obj == 1..MaxObj

\* i32 is the Copy type of the examples; String owns a heap buffer; Rc is the
\* reference-counted pointer.
Types == {"i32", "String", "Rc"}

\* The text a buffer holds: a sequence of pieces, grown by push.
LetTexts == {<<"udon", "ramen", "soba">>}
AssignTexts == {<<"Siddhartha">>}
Pieces == {"!"}
LetNums == {36}
AssignNums == {3}

NoVal == [num |-> 0, text |-> <<>>]

VARIABLES
    state,   \* name -> "undeclared" | "init" | "moved" (uninitialized by a move)
    ty,      \* name -> its type
    ptr,     \* name -> heap block of a String / Rc binding (bytes stay after a move)
    num,     \* name -> the bits of an i32 binding
    alive,   \* block -> "unalloc" | "live" | "dropped"
    kind,    \* block -> "none" | "String" | "Rc": what was allocated there
    buf,     \* block -> its text
    strong,  \* block -> reference count of an Rc block
    drops,   \* block -> how many times it has been dropped
    from,    \* name -> how it got its value: "fresh" | "move" | "copy" | "clone"
    result   \* the outcome of the last statement

ownVars == <<state, ty, ptr, num, alive, kind, buf, strong, drops, from, result>>

VARIABLES
    v,       \* the vector
    i,       \* the loop variable of `for i in 101 .. 106`
    vpc,     \* "building" | "ready" | "panic"
    taken,   \* the elements moved out of the vector, in order
    log      \* the operations applied to the built vector, in order

vecVars == <<v, i, vpc, taken, log>>

VARIABLES
    prog,     \* the program examined: [shape, a, b]
    fpc,      \* "then" | "else" | "body" | "use" | "done"
    pos,      \* statements of the current block already examined
    mm,       \* x may be uninitialized at the current point
    saved,    \* if: the state after the then-block; while: the state at the loop head
    pass,     \* while: how many times the body has been examined
    rejected  \* a use of x was found where x may be uninitialized

flowVars == <<prog, fpc, pos, mm, saved, pass, rejected>>

VARIABLES
    cstate,   \* the vector variable: "undeclared" | "init" | "moved"
    elems,    \* the heap blocks of the vector's elements, in order
    iter,     \* the elements the for loop has taken over and not yet handed out
    lpc,      \* the for loop: "none" | "head" | "body" | "end" | "done"
    loopVar   \* the block the loop variable owns; 0 when it owns none

collVars == <<cstate, elems, iter, lpc, loopVar>>

vars == <<ownVars, vecVars, flowVars, collVars>>

\* ------------------------------------------------------------------------
\* Helpers
\* ------------------------------------------------------------------------
MutIsCopyAll(T) == T \in {"i32", "String"}

MutIsCopyNone(T) == FALSE

\* Copy types: the machine integers; String and Rc are not Copy.
IsCopy(T) == T = "i32"

HasFree == \E o \in Obj : alive[o] = "unalloc"

\* The next block the allocator hands out.
NextObj == CHOOSE o \in Obj : alive[o] = "unalloc" /\ \A p \in Obj : alive[p] = "unalloc" => o <= p

\* The value a binding's bytes denote.
Val(n) ==
    [num  |-> IF ty[n] = "i32" THEN num[n] ELSE 0,
     text |-> IF ty[n] \in {"String", "Rc"} THEN buf[ptr[n]] ELSE <<>>]

MutReadNoCheck(n) == [status |-> "ok", val |-> Val(n)]

\* A use of the binding: rejected when the binding is uninitialized.
read(n) ==
    IF state[n] # "init" THEN [status |-> "UseAfterMoveError", val |-> NoVal]
    ELSE IF ty[n] # "i32" /\ alive[ptr[n]] # "live" THEN [status |-> "dangling", val |-> NoVal]
    ELSE [status |-> "ok", val |-> Val(n)]

Outcome(op, src, dst, status) ==
    [op |-> op, src |-> src, dst |-> dst, status |-> status]

MutReleasedEarly(o, count) == count <= 1

\* An Rc block is released when its count reaches zero.
Released(o, count) == count = 0

MutNoDecrement(n) == strong

\* The heap after the value held by an initialized binding n is dropped.
StrongAfterDrop(n) ==
    IF ty[n] = "Rc" THEN [strong EXCEPT ![ptr[n]] = @ - 1] ELSE strong

Freed(n) ==
    IF ty[n] = "String" THEN {ptr[n]}
    ELSE IF ty[n] = "Rc" /\ Released(ptr[n], strong[ptr[n]] - 1) THEN {ptr[n]}
    ELSE {}

AliveAfterFree(F) == [o \in Obj |-> IF o \in F THEN "dropped" ELSE alive[o]]

\* A dropped String frees its buffer.
BufAfterFree(F) == [o \in Obj |-> IF o \in F THEN <<>> ELSE buf[o]]

DropsAfterFree(F) == [o \in Obj |-> IF o \in F THEN drops[o] + 1 ELSE drops[o]]

\* ------------------------------------------------------------------------
\* Init
\* ------------------------------------------------------------------------
InitOwn ==
    /\ state = [n \in Names |-> "undeclared"]
    /\ ty = [n \in Names |-> "i32"]
    /\ ptr = [n \in Names |-> 1]
    /\ num = [n \in Names |-> 0]
    /\ alive = [o \in Obj |-> "unalloc"]
    /\ kind = [o \in Obj |-> "none"]
    /\ buf = [o \in Obj |-> <<>>]
    /\ strong = [o \in Obj |-> 0]
    /\ drops = [o \in Obj |-> 0]
    /\ from = [n \in Names |-> "none"]
    /\ result = Outcome("start", "s", "s", "ok")

\* ------------------------------------------------------------------------
\* Statements
\* ------------------------------------------------------------------------
\* let n: i32 = 36;
LetNum(n, k) ==
    /\ state[n] = "undeclared"
    /\ state' = [state EXCEPT ![n] = "init"]
    /\ ty' = [ty EXCEPT ![n] = "i32"]
    /\ num' = [num EXCEPT ![n] = k]
    /\ from' = [from EXCEPT ![n] = "fresh"]
    /\ result' = Outcome("let", n, n, "ok")
    /\ UNCHANGED <<ptr, alive, kind, buf, strong, drops>>
    /\ UNCHANGED <<vecVars, flowVars, collVars>>

\* let n = "..".to_string();   let n = Rc::new("..".to_string());
LetHeap(n, T, x) ==
    /\ state[n] = "undeclared"
    /\ T \in {"String", "Rc"}
    /\ HasFree
    /\ LET o == NextObj IN
        /\ state' = [state EXCEPT ![n] = "init"]
        /\ ty' = [ty EXCEPT ![n] = T]
        /\ ptr' = [ptr EXCEPT ![n] = o]
        /\ alive' = [alive EXCEPT ![o] = "live"]
        /\ kind' = [kind EXCEPT ![o] = T]
        /\ buf' = [buf EXCEPT ![o] = x]
        /\ strong' = [strong EXCEPT ![o] = IF T = "Rc" THEN 1 ELSE 0]
    /\ from' = [from EXCEPT ![n] = "fresh"]
    /\ result' = Outcome("let", n, n, "ok")
    /\ UNCHANGED <<num, drops>>
    /\ UNCHANGED <<vecVars, flowVars, collVars>>

\* let n: i32 = 36 (first form), n = 3 (later assignment): no heap, nothing to drop.
AssignNum(n, k) ==
    /\ state[n] # "undeclared"
    /\ ty[n] = "i32"
    /\ state' = [state EXCEPT ![n] = "init"]
    /\ num' = [num EXCEPT ![n] = k]
    /\ from' = [from EXCEPT ![n] = "fresh"]
    /\ result' = Outcome("assign", n, n, "ok")
    /\ UNCHANGED <<ty, ptr, alive, kind, buf, strong, drops>>
    /\ UNCHANGED <<vecVars, flowVars, collVars>>

MutPriorAlways(n) == TRUE

\* Assignment drops the variable's prior value when the variable is initialized.
DropsPrior(n) == state[n] = "init"

\* s = "Siddhartha".to_string();
Assign(n, x) ==
    /\ state[n] # "undeclared"
    /\ ty[n] \in {"String", "Rc"}
    /\ HasFree
    /\ LET o == NextObj
           d == DropsPrior(n)
           F == IF d THEN Freed(n) ELSE {}
           st == IF d THEN StrongAfterDrop(n) ELSE strong
       IN
        /\ state' = [state EXCEPT ![n] = "init"]
        /\ ptr' = [ptr EXCEPT ![n] = o]
        /\ alive' = [AliveAfterFree(F) EXCEPT ![o] = "live"]
        /\ kind' = [kind EXCEPT ![o] = ty[n]]
        /\ drops' = DropsAfterFree(F)
        /\ buf' = [BufAfterFree(F) EXCEPT ![o] = x]
        /\ strong' = [st EXCEPT ![o] = IF ty[n] = "Rc" THEN 1 ELSE 0]
    /\ from' = [from EXCEPT ![n] = "fresh"]
    /\ result' = Outcome("assign", n, n, "ok")
    /\ UNCHANGED <<ty, num>>
    /\ UNCHANGED <<vecVars, flowVars, collVars>>

MutMoveCounts(src) == IF ty[src] = "Rc" THEN [strong EXCEPT ![ptr[src]] = @ + 1] ELSE strong

\* A move changes no reference count: the pointer changes hands, the block is
\* not touched.
MoveCount(src) == strong

\* let dst = src;   a move, or a copy when the type is Copy.
LetFrom(src, dst) ==
    /\ state[src] # "undeclared"
    /\ state[dst] = "undeclared"
    /\ IF read(src).status # "ok"
       THEN /\ result' = Outcome("let_from", src, dst, read(src).status)
            /\ UNCHANGED <<state, ty, ptr, num, alive, kind, buf, strong, drops, from>>
       ELSE /\ state' = [state EXCEPT ![dst] = "init",
                                      ![src] = IF IsCopy(ty[src]) THEN "init" ELSE "moved"]
            /\ ty' = [ty EXCEPT ![dst] = ty[src]]
            /\ ptr' = [ptr EXCEPT ![dst] = ptr[src]]
            /\ num' = [num EXCEPT ![dst] = num[src]]
            /\ from' = [from EXCEPT ![dst] = IF IsCopy(ty[src]) THEN "copy" ELSE "move"]
            /\ result' = Outcome("let_from", src, dst, "ok")
            /\ strong' = MoveCount(src)
            /\ UNCHANGED <<alive, kind, buf, drops>>
    /\ UNCHANGED <<vecVars, flowVars, collVars>>

MutShallowClone(src) == ptr[src]

\* The block a clone points to: a fresh buffer for a String (deep copy), the
\* same block for an Rc (another pointer to it).
CloneBlock(src) == IF ty[src] = "String" THEN NextObj ELSE ptr[src]

\* let dst = src.clone();
Clone(src, dst) ==
    /\ state[src] # "undeclared"
    /\ state[dst] = "undeclared"
    /\ ty[src] = "String" => HasFree
    /\ IF read(src).status # "ok"
       THEN /\ result' = Outcome("clone", src, dst, read(src).status)
            /\ UNCHANGED <<state, ty, ptr, num, alive, kind, buf, strong, drops, from>>
       ELSE /\ state' = [state EXCEPT ![dst] = "init"]
            /\ ty' = [ty EXCEPT ![dst] = ty[src]]
            /\ num' = [num EXCEPT ![dst] = num[src]]
            /\ IF ty[src] = "i32"
               THEN UNCHANGED <<ptr, alive, kind, buf, strong>>
               ELSE LET o == CloneBlock(src) IN
                    /\ ptr' = [ptr EXCEPT ![dst] = o]
                    /\ alive' = [alive EXCEPT ![o] = "live"]
                    /\ kind' = [kind EXCEPT ![o] = ty[src]]
                    /\ buf' = [buf EXCEPT ![o] = buf[ptr[src]]]
                    /\ strong' = IF ty[src] = "Rc" THEN [strong EXCEPT ![o] = @ + 1]
                                 ELSE strong
            /\ from' = [from EXCEPT ![dst] = "clone"]
            /\ result' = Outcome("clone", src, dst, "ok")
            /\ UNCHANGED drops
    /\ UNCHANGED <<vecVars, flowVars, collVars>>

\* print(l);  drop(t);   the argument moves into the parameter, which the
\* function drops before returning; a Copy argument stays with the caller.
PassByValue(n) ==
    /\ state[n] # "undeclared"
    /\ IF read(n).status # "ok"
       THEN /\ result' = Outcome("call", n, n, read(n).status)
            /\ UNCHANGED <<state, ty, ptr, num, alive, kind, buf, strong, drops, from>>
       ELSE IF IsCopy(ty[n])
       THEN /\ result' = Outcome("call", n, n, "ok")
            /\ UNCHANGED <<state, ty, ptr, num, alive, kind, buf, strong, drops, from>>
       ELSE /\ state' = [state EXCEPT ![n] = "moved"]
            /\ alive' = AliveAfterFree(Freed(n))
            /\ drops' = DropsAfterFree(Freed(n))
            /\ buf' = BufAfterFree(Freed(n))
            /\ strong' = StrongAfterDrop(n)
            /\ result' = Outcome("call", n, n, "ok")
            /\ UNCHANGED <<ty, ptr, num, kind, from>>
    /\ UNCHANGED <<vecVars, flowVars, collVars>>

\* How many pieces have been pushed onto a text.
Pushed(text) == Cardinality({j \in DOMAIN text : text[j] \in Pieces})

\* s.push(..) / s.push_str(..): mutates the String the binding owns; the
\* referent of an Rc is immutable.
Push(n, e) ==
    /\ state[n] # "undeclared"
    /\ ty[n] # "i32"
    /\ Pushed(buf[ptr[n]]) < MaxPush
    /\ IF read(n).status # "ok"
       THEN /\ result' = Outcome("push", n, n, read(n).status)
            /\ UNCHANGED buf
       ELSE IF ty[n] = "Rc"
       THEN /\ result' = Outcome("push", n, n, "immutable")
            /\ UNCHANGED buf
       ELSE /\ buf' = [buf EXCEPT ![ptr[n]] = Append(@, e)]
            /\ result' = Outcome("push", n, n, "ok")
    /\ UNCHANGED <<state, ty, ptr, num, alive, kind, strong, drops, from>>
    /\ UNCHANGED <<vecVars, flowVars, collVars>>

\* println!("{}", l.number): a use of the binding.
Read(n) ==
    /\ state[n] # "undeclared"
    /\ result' = Outcome("read", n, n, read(n).status)
    /\ UNCHANGED <<state, ty, ptr, num, alive, kind, buf, strong, drops, from>>
    /\ UNCHANGED <<vecVars, flowVars, collVars>>

Next ==
    \/ \E n \in Names, k \in LetNums : LetNum(n, k)
    \/ \E n \in Names, T \in Types, x \in LetTexts : LetHeap(n, T, x)
    \/ \E n \in Names, k \in AssignNums : AssignNum(n, k)
    \/ \E n \in Names, x \in AssignTexts : Assign(n, x)
    \/ \E a, b \in Names : LetFrom(a, b)
    \/ \E a, b \in Names : Clone(a, b)
    \/ \E n \in Names : PassByValue(n)
    \/ \E n \in Names, e \in Pieces : Push(n, e)
    \/ \E n \in Names : Read(n)

\* ------------------------------------------------------------------------
\* The vector (lines 121-140)
\* ------------------------------------------------------------------------
RangeLo == 101
RangeHi == 106
MaxOps == 3

Digits == <<"0", "1", "2", "3", "4", "5", "6", "7", "8", "9">>

\* i.to_string(): the decimal digits of i, most significant first.
RECURSIVE to_string(_)
to_string(n) ==
    IF n < 10 THEN Digits[n + 1] ELSE to_string(n \div 10) \o Digits[(n % 10) + 1]

\* What a slot would hold had its element been moved out and nothing put in.
Uninit == "<uninitialized>"

\* Indices tried on the vector (0-based, one past the full vector included).
Idx == 0..(RangeHi - RangeLo)
Subs == {"substitute"}

\* v.pop(): the last element, and the vector without it.
PopVec(vec) == [out |-> vec[Len(vec)], rest |-> SubSeq(vec, 1, Len(vec) - 1)]

MutRemoveShift(vec, k) ==
    [out |-> vec[k + 1], rest |-> SubSeq(vec, 1, k) \o SubSeq(vec, k + 2, Len(vec))]

\* v.swap_remove(k): element k, and the vector with its last element moved
\* into slot k.
SwapRemoveVec(vec, k) ==
    [out  |-> vec[k + 1],
     rest |-> SubSeq([vec EXCEPT ![k + 1] = vec[Len(vec)]], 1, Len(vec) - 1)]

\* std::mem::replace(&mut v[k], x): element k, and the vector with x in slot k.
ReplaceVec(vec, k, x) == [out |-> vec[k + 1], rest |-> [vec EXCEPT ![k + 1] = x]]

InitVec ==
    /\ v = <<>>
    /\ i = RangeLo
    /\ vpc = "building"
    /\ taken = <<>>
    /\ log = <<>>

\* for i in 101 .. 106 { v.push(i.to_string()); }
VecPush ==
    /\ vpc = "building"
    /\ i < RangeHi
    /\ v' = Append(v, to_string(i))
    /\ i' = i + 1
    /\ vpc' = IF i + 1 < RangeHi THEN "building" ELSE "ready"
    /\ UNCHANGED <<taken, log>>
    /\ UNCHANGED <<ownVars, flowVars, collVars>>

\* let fifth = v.pop().unwrap();   unwrap panics on the None of an empty vector.
Pop ==
    /\ vpc = "ready"
    /\ Len(log) < MaxOps
    /\ log' = Append(log, [op |-> "pop", k |-> 0, x |-> ""])
    /\ IF v = <<>>
       THEN vpc' = "panic" /\ UNCHANGED <<v, taken>>
       ELSE /\ v' = PopVec(v).rest
            /\ taken' = Append(taken, PopVec(v).out)
            /\ UNCHANGED vpc
    /\ UNCHANGED i
    /\ UNCHANGED <<ownVars, flowVars, collVars>>

\* let second = v.swap_remove(k);   panics when k is out of bounds.
SwapRemove(k) ==
    /\ vpc = "ready"
    /\ Len(log) < MaxOps
    /\ log' = Append(log, [op |-> "swap_remove", k |-> k, x |-> ""])
    /\ IF k >= Len(v)
       THEN vpc' = "panic" /\ UNCHANGED <<v, taken>>
       ELSE /\ v' = SwapRemoveVec(v, k).rest
            /\ taken' = Append(taken, SwapRemoveVec(v, k).out)
            /\ UNCHANGED vpc
    /\ UNCHANGED i
    /\ UNCHANGED <<ownVars, flowVars, collVars>>

\* let third = std::mem::replace(&mut v[k], x);   v[k] panics when k is out
\* of bounds.
Replace(k, x) ==
    /\ vpc = "ready"
    /\ Len(log) < MaxOps
    /\ log' = Append(log, [op |-> "replace", k |-> k, x |-> x])
    /\ IF k >= Len(v)
       THEN vpc' = "panic" /\ UNCHANGED <<v, taken>>
       ELSE /\ v' = ReplaceVec(v, k, x).rest
            /\ taken' = Append(taken, ReplaceVec(v, k, x).out)
            /\ UNCHANGED vpc
    /\ UNCHANGED i
    /\ UNCHANGED <<ownVars, flowVars, collVars>>

NextVec ==
    \/ VecPush
    \/ Pop
    \/ \E k \in Idx : SwapRemove(k)
    \/ \E k \in Idx, x \in Subs : Replace(k, x)

\* ------------------------------------------------------------------------
\* Moves and control flow (lines 71-95)
\* ------------------------------------------------------------------------
MaxBody == 2
MaxIter == 2

\* What a statement does to x: f(x) / g(x) moves it, x = h() gives it a value.
Stmts == {"move", "assign"}

BodySet == UNION {[1..k -> Stmts] : k \in 0..MaxBody}

\* let x = ..; if c { a } else { b }; h(x)     let x = ..; while f() { a }; e(x)
Programs ==
    {[shape |-> "if", a |-> x, b |-> y] : x, y \in BodySet}
        \cup {[shape |-> "while", a |-> x, b |-> <<>>] : x \in BodySet}

MutJoinBoth(m1, m2) == m1 /\ m2

\* Where two paths meet, x may be uninitialized if it may be on either.
Join(m1, m2) == m1 \/ m2

\* x after a statement: moved away, or definitely given a new value.
Transfer(stmt, m) == stmt = "move"

\* The block being examined.
Block == IF fpc = "else" THEN prog.b ELSE prog.a

InitFlow ==
    /\ prog \in Programs
    /\ fpc = IF prog.shape = "if" THEN "then" ELSE "body"
    /\ pos = 0
    /\ mm = FALSE
    /\ saved = FALSE
    /\ pass = 1
    /\ rejected = FALSE

IdleFlow ==
    /\ prog = [shape |-> "if", a |-> <<>>, b |-> <<>>]
    /\ fpc = "idle"
    /\ pos = 0
    /\ mm = FALSE
    /\ saved = FALSE
    /\ pass = 1
    /\ rejected = FALSE

\* The next statement of the block: a move is a use of x.
Examine ==
    /\ fpc \in {"then", "else", "body"}
    /\ pos < Len(Block)
    /\ rejected' = (rejected \/ (Block[pos + 1] = "move" /\ mm))
    /\ mm' = Transfer(Block[pos + 1], mm)
    /\ pos' = pos + 1
    /\ UNCHANGED <<prog, fpc, saved, pass>>
    /\ UNCHANGED <<ownVars, vecVars, collVars>>

\* } else {    the else-block starts from the state after the condition.
EndThen ==
    /\ fpc = "then"
    /\ pos = Len(prog.a)
    /\ saved' = mm
    /\ mm' = FALSE
    /\ pos' = 0
    /\ fpc' = "else"
    /\ UNCHANGED <<prog, pass, rejected>>
    /\ UNCHANGED <<ownVars, vecVars, collVars>>

\* }    after the if: either branch may have been taken.
EndElse ==
    /\ fpc = "else"
    /\ pos = Len(prog.b)
    /\ mm' = Join(saved, mm)
    /\ fpc' = "use"
    /\ UNCHANGED <<prog, pos, saved, pass, rejected>>
    /\ UNCHANGED <<ownVars, vecVars, collVars>>

\* End of the loop body, back at the loop head: the body may run again from
\* the state it left, so it is examined again when that state is new.
LoopAgain ==
    /\ fpc = "body"
    /\ pos = Len(prog.a)
    /\ Join(saved, mm) # saved
    /\ saved' = Join(saved, mm)
    /\ mm' = Join(saved, mm)
    /\ pos' = 0
    /\ pass' = pass + 1
    /\ UNCHANGED <<prog, fpc, rejected>>
    /\ UNCHANGED <<ownVars, vecVars, collVars>>

\* The loop exits from its head.
LoopExit ==
    /\ fpc = "body"
    /\ pos = Len(prog.a)
    /\ Join(saved, mm) = saved
    /\ mm' = saved
    /\ fpc' = "use"
    /\ UNCHANGED <<prog, pos, saved, pass, rejected>>
    /\ UNCHANGED <<ownVars, vecVars, collVars>>

\* h(x) / e(x) after the if or the loop.
Use ==
    /\ fpc = "use"
    /\ rejected' = (rejected \/ mm)
    /\ fpc' = "done"
    /\ UNCHANGED <<prog, pos, mm, saved, pass>>
    /\ UNCHANGED <<ownVars, vecVars, collVars>>

NextFlow ==
    \/ Examine
    \/ EndThen
    \/ EndElse
    \/ LoopAgain
    \/ LoopExit
    \/ Use

\* ------------------------------------------------------------------------
\* Vectors as owners (lines 57-65, 145-154)
\* ------------------------------------------------------------------------
InitColl ==
    /\ cstate = "undeclared"
    /\ elems = <<>>
    /\ iter = <<>>
    /\ lpc = "none"
    /\ loopVar = 0

\* let mut composers = Vec::new();
CollNew ==
    /\ cstate = "undeclared"
    /\ cstate' = "init"
    /\ result' = Outcome("vec_new", "s", "s", "ok")
    /\ UNCHANGED <<elems, iter, lpc, loopVar>>
    /\ UNCHANGED <<state, ty, ptr, num, alive, kind, buf, strong, drops, from>>
    /\ UNCHANGED <<vecVars, flowVars>>

\* composers.push(p);   the value moves onto the end of the vector, which
\* takes ownership of it; a Copy value is copied.
CollPush(n) ==
    /\ cstate # "undeclared"
    /\ state[n] # "undeclared"
    /\ ty[n] = "String"
    /\ IF cstate # "init" \/ read(n).status # "ok"
       THEN /\ result' = Outcome("vec_push", n, n,
                                 IF cstate # "init" THEN "UseAfterMoveError" ELSE read(n).status)
            /\ UNCHANGED <<state, elems>>
       ELSE /\ elems' = Append(elems, ptr[n])
            /\ state' = [state EXCEPT ![n] = IF IsCopy(ty[n]) THEN "init" ELSE "moved"]
            /\ result' = Outcome("vec_push", n, n, "ok")
    /\ UNCHANGED <<cstate, iter, lpc, loopVar>>
    /\ UNCHANGED <<ty, ptr, num, alive, kind, buf, strong, drops, from>>
    /\ UNCHANGED <<vecVars, flowVars>>

MutForKeepsVec == "init"

\* The vector variable after `for .. in v`: the vector has moved out of it.
VecAfterFor == "moved"

\* for mut s in v {    the loop takes ownership of the vector.
ForStart ==
    /\ cstate = "init"
    /\ lpc = "none"
    /\ cstate' = VecAfterFor
    /\ iter' = elems
    /\ lpc' = "head"
    /\ result' = Outcome("for", "s", "s", "ok")
    /\ UNCHANGED <<elems, loopVar>>
    /\ UNCHANGED <<state, ty, ptr, num, alive, kind, buf, strong, drops, from>>
    /\ UNCHANGED <<vecVars, flowVars>>

\* Each iteration moves another element to the loop variable.
ForNext ==
    /\ lpc = "head"
    /\ iter # <<>>
    /\ loopVar' = Head(iter)
    /\ iter' = Tail(iter)
    /\ lpc' = "body"
    /\ result' = Outcome("for_next", "s", "s", "ok")
    /\ UNCHANGED <<cstate, elems>>
    /\ UNCHANGED <<state, ty, ptr, num, alive, kind, buf, strong, drops, from>>
    /\ UNCHANGED <<vecVars, flowVars>>

\* s.push("!"); println!("{}", s);   the loop variable owns the string.
ForBody ==
    /\ lpc = "body"
    /\ buf' = [buf EXCEPT ![loopVar] = Append(@, "!")]
    /\ lpc' = "end"
    /\ result' = Outcome("for_body", "s", "s", "ok")
    /\ UNCHANGED <<cstate, elems, iter, loopVar>>
    /\ UNCHANGED <<state, ty, ptr, num, alive, kind, strong, drops, from>>
    /\ UNCHANGED <<vecVars, flowVars>>

\* }    the loop variable goes out of scope and its string is dropped.
ForIterEnd ==
    /\ lpc = "end"
    /\ alive' = AliveAfterFree({loopVar})
    /\ drops' = DropsAfterFree({loopVar})
    /\ buf' = BufAfterFree({loopVar})
    /\ loopVar' = 0
    /\ lpc' = "head"
    /\ result' = Outcome("for_drop", "s", "s", "ok")
    /\ UNCHANGED <<cstate, elems, iter>>
    /\ UNCHANGED <<state, ty, ptr, num, kind, strong, from>>
    /\ UNCHANGED <<vecVars, flowVars>>

\* The loop ends when every element has been handed out.
ForEnd ==
    /\ lpc = "head"
    /\ iter = <<>>
    /\ lpc' = "done"
    /\ result' = Outcome("for_end", "s", "s", "ok")
    /\ UNCHANGED <<cstate, elems, iter, loopVar>>
    /\ UNCHANGED <<state, ty, ptr, num, alive, kind, buf, strong, drops, from>>
    /\ UNCHANGED <<vecVars, flowVars>>

\* The bindings the moves go between, besides the vector and the loop variable.
MoveNames == {"s", "t"}

NextMoves ==
    \/ \E n \in MoveNames, x \in LetTexts : LetHeap(n, "String", x)
    \/ \E n \in MoveNames, x \in AssignTexts : Assign(n, x)
    \/ \E a, b \in MoveNames : LetFrom(a, b)
    \/ \E n \in MoveNames : PassByValue(n)
    \/ CollNew
    \/ \E n \in MoveNames : CollPush(n)
    \/ ForStart
    \/ ForNext
    \/ ForBody
    \/ ForIterEnd
    \/ ForEnd

InitF == InitOwn /\ InitVec /\ InitFlow /\ InitColl

Init == InitOwn /\ InitVec /\ IdleFlow /\ InitColl

Spec == Init /\ [][Next]_vars

SpecVec == Init /\ [][NextVec]_vars

SpecFlow == InitF /\ [][NextFlow]_vars

SpecMoves == Init /\ [][NextMoves]_vars

\* ------------------------------------------------------------------------
\* Claims on the binding machine (Spec)
\* ------------------------------------------------------------------------
\* The last statement, as the step that produced the primed state records it.
Did(op) == result'.op = op /\ result'.status = "ok"

\* The statement moved the value out of binding n: `let b = n;` or a call
\* taking n by value, n of a type that is not Copy.
MovedOut(n) ==
    /\ Did("let_from") \/ Did("call")
    /\ result'.src = n
    /\ ty[n] \in {"String", "Rc"}

\* C1 as stated: once move_out(name) has been performed, a read(name) always
\* fails with UseAfterMoveError (from then on, whatever happens in between).
C1_ReadFailsForever ==
    [][\A n \in Names : state[n] = "moved" => read(n)'.status = "UseAfterMoveError"]_vars

\* C1 amended: once move_out(name) has been performed, a read(name) fails with
\* UseAfterMoveError until name is assigned a new value.
C1_ReadFailsUntilAssigned ==
    [][\A n \in Names :
          /\ MovedOut(n) => read(n)'.status = "UseAfterMoveError"
          /\ (state[n] = "moved" /\ ~(Did("assign") /\ result'.src = n))
                => read(n)'.status = "UseAfterMoveError"]_vars

C1_Witness ==
    /\ result = Outcome("read", "s", "s", "UseAfterMoveError")
    /\ state["s"] = "moved"
    /\ ty["s"] = "String"
    /\ alive[ptr["s"]] = "dropped"

\* C2: move_out(name) on a live binding marks name dead, the destination reads
\* exactly the value the source held before the move, and no reference count
\* changes.
C2_MoveTransfersValue ==
    [][\A a, b \in Names :
          (Did("let_from") /\ result'.src = a /\ result'.dst = b /\ ty[a] \in {"String", "Rc"})
          => /\ read(a).status = "ok"
             /\ read(b)' = read(a)
             /\ read(a)'.status = "UseAfterMoveError"
             /\ strong' = strong]_vars

C2_Witness ==
    /\ result = Outcome("let_from", "s", "t", "ok")
    /\ read("s").status = "UseAfterMoveError"
    /\ read("t") = [status |-> "ok", val |-> [num |-> 0, text |-> <<"udon", "ramen", "soba">>]]

\* C3: a move_out from a name that is already dead fails with
\* UseAfterMoveError and moves nothing.
C3_DoubleMoveRejected ==
    [][\A a \in Names :
          (result'.op \in {"let_from", "call"} /\ result'.src = a /\ state[a] = "moved")
          => /\ result'.status = "UseAfterMoveError"
             /\ UNCHANGED <<state, ty, ptr, num, alive, kind, buf, strong, drops>>]_vars

C3_Witness ==
    /\ result = Outcome("let_from", "s", "u", "UseAfterMoveError")
    /\ from["t"] = "move"
    /\ state = [n \in Names |-> IF n = "s" THEN "moved" ELSE IF n = "t" THEN "init" ELSE "undeclared"]

\* A copy of a into b: `let b = a;` of a Copy type, or `let b = a.clone();`
\* of an i32 or a String.
Copied(a, b) ==
    /\ result'.src = a /\ result'.dst = b
    /\ \/ Did("let_from") /\ ty[a] = "i32"
       \/ Did("clone") /\ ty[a] \in {"i32", "String"}

\* C4: a copy leaves the source live and readable with the value it had, the
\* new binding reads the same value, and moving the copy afterwards changes
\* nothing the other bindings read.
C4_CopyLeavesSource ==
    [][/\ \A a, b \in Names : Copied(a, b) =>
              /\ read(a).status = "ok"
              /\ read(a)' = read(a)
              /\ read(b)' = read(a)
       /\ \A b \in Names :
              (result'.op \in {"let_from", "call"} /\ result'.status = "ok"
                  /\ result'.src = b /\ from[b] \in {"copy", "clone"})
              => \A a \in Names \ {b, result'.dst} : read(a)' = read(a)]_vars

C4_Witness ==
    /\ result = Outcome("call", "t", "t", "ok")
    /\ from["t"] = "clone" /\ ty["t"] = "String" /\ state["t"] = "moved"
    /\ alive[ptr["t"]] = "dropped"
    /\ read("s") = [status |-> "ok", val |-> [num |-> 0, text |-> <<"udon", "ramen", "soba">>]]

\* C5: a mutation of a copy leaves the value read from every other binding,
\* its source included, unchanged.
C5_CopyIndependent ==
    [][\A t \in Names :
          (Did("push") /\ result'.src = t /\ from[t] \in {"copy", "clone"})
          => /\ read(t)'.val.text # read(t).val.text
             /\ \A s \in Names \ {t} : read(s)' = read(s)]_vars

C5_Witness ==
    /\ result = Outcome("push", "t", "t", "ok")
    /\ from["t"] = "clone" /\ from["s"] = "fresh"
    /\ read("s") = [status |-> "ok", val |-> [num |-> 0, text |-> <<"udon", "ramen", "soba">>]]
    /\ read("t") = [status |-> "ok", val |-> [num |-> 0, text |-> <<"udon", "ramen", "soba", "!">>]]

\* The live handles to an Rc block.
Handles(o) == {n \in Names : state[n] = "init" /\ ty[n] = "Rc" /\ ptr[n] = o}

\* C6: the reference count of every block equals the number of live handles
\* to it and is never negative (so each share adds one to it and each drop
\* of a handle takes one away).
C6_CountIsLiveHandles ==
    \A o \in Obj : strong[o] = Cardinality(Handles(o)) /\ strong[o] >= 0

C6_Witness ==
    /\ \E o \in Obj : strong[o] = 3 /\ Handles(o) = {"s", "t", "u"}
    /\ from = [n \in Names |-> IF n = "s" THEN "fresh" ELSE "clone"]

\* C7: an Rc block is released exactly when its count goes to zero: it is live
\* as long as a handle to it is live, and the step that takes the count from
\* positive to zero is the step that releases it.
C7_ReleasedAtZero ==
    /\ [](\A o \in Obj : kind[o] = "Rc" =>
              /\ alive[o] = "live" <=> Handles(o) # {}
              /\ alive[o] = "dropped" <=> strong[o] = 0)
    /\ [][\A o \in Obj : kind[o] = "Rc" =>
              ((alive[o] = "live" /\ alive'[o] = "dropped")
                  <=> (strong[o] > 0 /\ strong'[o] = 0))]_vars

C7_Witness ==
    /\ result = Outcome("call", "t", "t", "ok")
    /\ from["t"] = "clone" /\ from["s"] = "fresh"
    /\ ty["s"] = "Rc" /\ state["s"] = "moved" /\ ptr["s"] = ptr["t"]
    /\ alive[ptr["t"]] = "dropped" /\ drops[ptr["t"]] = 1

\* The blocks a step drops.
DroppedByStep == {o \in Obj : alive[o] = "live" /\ alive'[o] = "dropped"}

\* C9: an assignment drops the variable's prior value if and only if the
\* variable is initialized at that point, leaves the variable initialized, and
\* no value is dropped more than once.
C9_AssignDropsPriorIffInit ==
    /\ [](\A o \in Obj : drops[o] <= 1)
    /\ [][\A n \in Names : (Did("assign") /\ result'.src = n) =>
              /\ state'[n] = "init"
              /\ (state[n] = "init" /\ ty[n] = "String") => DroppedByStep = {ptr[n]}
              /\ state[n] # "init" => DroppedByStep = {} /\ drops' = drops]_vars

C9_Witness ==
    /\ result = Outcome("assign", "s", "s", "ok")
    /\ from["t"] = "move"
    /\ read("t") = [status |-> "ok", val |-> [num |-> 0, text |-> <<"udon", "ramen", "soba">>]]
    /\ read("s") = [status |-> "ok", val |-> [num |-> 0, text |-> <<"Siddhartha">>]]
    /\ \A o \in Obj : drops[o] = 0

\* ------------------------------------------------------------------------
\* Claims on the vector (SpecVec)
\* ------------------------------------------------------------------------
\* How many slots of a sequence hold e.
Count(seq, e) == Cardinality({j \in DOMAIN seq : seq[j] = e})

Range(seq) == {seq[j] : j \in DOMAIN seq}

TheThreeOps ==
    <<[op |-> "pop", k |-> 0, x |-> ""],
      [op |-> "swap_remove", k |-> 1, x |-> ""],
      [op |-> "replace", k |-> 2, x |-> "substitute"]>>

\* An operation of the step moved an element out (it did not panic).
Took == vpc' = "ready" /\ Len(log') = Len(log) + 1

\* C8: on ["101".."105"], pop, swap_remove(1), replace(&mut v[2], "substitute")
\* return "105", "102", "103" and leave ["101","104","substitute"]; each
\* operation moves exactly one element out and leaves every slot of the
\* vector populated, pop and swap_remove one shorter, replace as long.
C8_MoveOutOfVector ==
    /\ [](log = TheThreeOps =>
              /\ taken = <<"105", "102", "103">>
              /\ v = <<"101", "104", "substitute">>)
    /\ [][Took =>
              LET o == log'[Len(log')]
                  out == taken'[Len(taken')]
                  put == IF o.op = "replace" THEN {o.x} ELSE {}
              IN
              /\ Len(taken') = Len(taken) + 1
              /\ SubSeq(taken', 1, Len(taken)) = taken
              /\ Uninit \notin Range(v')
              /\ Len(v') = IF o.op = "replace" THEN Len(v) ELSE Len(v) - 1
              /\ \A e \in Range(v) \cup Range(v') :
                    Count(v, e) + (IF e \in put THEN 1 ELSE 0)
                        = Count(v', e) + (IF e = out THEN 1 ELSE 0)]_vars

C8_Witness ==
    /\ log = TheThreeOps
    /\ vpc = "ready"
    /\ taken = <<"105", "102", "103">>
    /\ v = <<"101", "104", "substitute">>

\* ------------------------------------------------------------------------
\* Claims on moves and control flow (SpecFlow)
\* ------------------------------------------------------------------------
\* x after the statements of one path, run from an initialized x: moved away
\* when the last of them moved it.
MovedAfter(path) == path # <<>> /\ path[Len(path)] = "move"

\* A use of x (a move of it, or the final use) at which x has been moved away.
Fault(path) ==
    \E j \in 1..Len(path) :
        path[j] \in {"move", "use"} /\ MovedAfter(SubSeq(path, 1, j - 1))

RECURSIVE Repeat(_, _)
Repeat(body, k) == IF k = 0 THEN <<>> ELSE body \o Repeat(body, k - 1)

\* The control-flow paths from `let x` to the point after the if or the loop.
PathsToUse(p) ==
    IF p.shape = "if" THEN {p.a, p.b} ELSE {Repeat(p.a, k) : k \in 0..MaxIter}

IfElseBothMove == [shape |-> "if", a |-> <<"move">>, b |-> <<"move">>]
WhileMove == [shape |-> "while", a |-> <<"move">>, b |-> <<>>]
WhileMoveAssign == [shape |-> "while", a |-> <<"move", "assign">>, b |-> <<>>]

\* C10: x is considered uninitialized at a point exactly when some path to it
\* moved x away without giving it a new value since; so a use after an if/else
\* of which either branch moves x is rejected, a move in a loop body is
\* rejected, and `while f() { g(x); x = h(); } e(x)` is accepted.
C10_UninitOnSomePath ==
    /\ fpc = "use" => (mm <=> \E path \in PathsToUse(prog) : MovedAfter(path))
    /\ fpc = "done" =>
           /\ rejected <=> \E path \in PathsToUse(prog) : Fault(Append(path, "use"))
           /\ (prog.shape = "if" /\ (MovedAfter(prog.a) \/ MovedAfter(prog.b))) => rejected
           /\ prog = IfElseBothMove => rejected
           /\ prog = WhileMove => rejected
           /\ prog = WhileMoveAssign => ~rejected

C10_Witness ==
    /\ fpc = "done"
    /\ prog = WhileMoveAssign
    /\ pass = 1
    /\ ~rejected

\* ------------------------------------------------------------------------
\* Claims on the moves between owners (SpecMoves)
\* ------------------------------------------------------------------------
\* The bindings that own block o.
BindOwners(o) == {n \in Names : state[n] = "init" /\ ty[n] = "String" /\ ptr[n] = o}

\* How many owners block o has: bindings, slots of the vector (while the
\* vector variable holds the vector), slots the for loop has taken over, and
\* the loop variable.
OwnerCount(o) ==
    Cardinality(BindOwners(o))
        + (IF cstate = "init" THEN Count(elems, o) ELSE 0)
        + Count(iter, o)
        + (IF loopVar = o THEN 1 ELSE 0)

\* C11: across any sequence of moves (let, assignment, passing to a function,
\* pushing into a vector, consuming the vector in a for loop) every live
\* String has exactly one owner; a move hands the value from its owner to the
\* destination and never leaves two owners or none.
C11_SingleOwner ==
    /\ [](\A o \in Obj : (kind[o] = "String" /\ alive[o] = "live") => OwnerCount(o) = 1)
    /\ [][/\ \A a, b \in Names :
                (Did("let_from") /\ result'.src = a /\ result'.dst = b /\ ty[a] = "String")
                => /\ BindOwners(ptr[a]) = {a}
                   /\ BindOwners(ptr[a])' = {b}
          /\ \A n \in Names :
                (Did("vec_push") /\ result'.src = n)
                => /\ BindOwners(ptr[n]) = {n}
                   /\ BindOwners(ptr[n])' = {}
                   /\ elems'[Len(elems')] = ptr[n]
          /\ Did("for") => (cstate' # "init" /\ iter' = elems)
          /\ Did("for_next") => (loopVar' = Head(iter) /\ Count(iter', loopVar') = 0)]_vars

C11_Witness ==
    /\ result = Outcome("for_next", "s", "s", "ok")
    /\ loopVar = 1 /\ lpc = "body" /\ cstate = "moved"
    /\ from["t"] = "move"
    /\ state["s"] = "moved" /\ state["t"] = "moved"
    /\ buf[1] = <<"udon", "ramen", "soba">>
    /\ alive[2] = "dropped"
    /\ OwnerCount(1) = 1

====
